---------------------------- MODULE Spec2Model ----------------------------
(***************************************************************************)
(* The 'mv' command of the UEFI shell (UefiShellLevel2CommandsLib/Mv.c).   *)
(*                                                                         *)
(* A CHAR16 string is a sequence of one-character strings; a NULL pointer  *)
(* to a string is the value NULL.  The path functions of Mv.c are          *)
(* operators, the command (ShellCommandRunMv) and its batch                *)
(* (ValidateAndMoveFiles) are a state machine.  Pool allocations succeed   *)
(* except where an operator takes the allocation's outcome as a parameter. *)
(***************************************************************************)
EXTENDS Naturals, Sequences, FiniteSets

VARIABLES
  fn,            \* a call of a path function on its own: arguments and result
  BreakFlag,     \* ShellGetExecutionBreakFlag()
  cpc,           \* position in ShellCommandRunMv
  Cwd,           \* ShellGetCurrentDir(NULL)
  ParamCount,    \* ShellCommandLineGetCount(Package)
  DestParameter, \* the last raw parameter
  LoopCounter,   \* index of the source argument being processed
  CmdStatus,     \* ShellCommandRunMv's ShellStatus
  Resp,          \* ShellCommandRunMv's Response (what *Resp designates)
  heap,          \* the allocated prompt responses: pointer |-> value
  ListLen,       \* number of nodes of FileList
  NodeIdx,       \* position of Node in FileList (1-based)
  Node,          \* the node the loop is at
  bpc,           \* position in ValidateAndMoveFiles
  DestMatches,   \* the nodes of the file store that the raw destination matches
  DestPath,      \* ValidateAndMoveFiles' DestPath
  FullDestPath,  \* ValidateAndMoveFiles' FullDestPath
  Attr,          \* ValidateAndMoveFiles' Attr (destination attribute)
  ShellStatus,   \* ValidateAndMoveFiles' ShellStatus
  Status,        \* ValidateAndMoveFiles' Status, "unset" where the next read follows a write
  OldStatus,     \* history: ShellStatus when the pass of Node began
  Response,      \* ValidateAndMoveFiles' Response
  Hii,           \* which of HiiOutput, HiiResultOk are held
  calls,         \* the collaborator calls made for the current node, in order
  ret,           \* what the last ValidateAndMoveFiles returned, and what it left allocated
  Returned       \* what ShellCommandRunMv returned

vars == <<fn, BreakFlag, cpc, Cwd, ParamCount, DestParameter, LoopCounter,
          CmdStatus, Resp, heap, ListLen, NodeIdx, Node, bpc,
          DestMatches, DestPath,
          FullDestPath, Attr, ShellStatus, Status, OldStatus, Response, Hii,
          calls, ret, Returned>>

---------------------------------------------------------------------------
(* Bounds of the model *)

\* longest source path IsValidMove is tried on
MaxLen == 3
\* most nodes in one FileList
MaxList == 2
\* most source arguments on one command line
MaxSources == 2

---------------------------------------------------------------------------
(* CHAR16 strings *)

NULL == <<"NULL">>
BS == "\\"
COLON == ":"

\* the characters paths are built from
PathChars == {BS, COLON, "a", "A"}

RECURSIVE StrsOfLen(_)
StrsOfLen(n) ==
  IF n = 0 THEN {<<>>}
  ELSE {Append(s, c) : s \in StrsOfLen(n - 1), c \in PathChars}

Strs(n) == UNION {StrsOfLen(k) : k \in 0..n}

\* first index of character c in s, 0 when absent: StrStr(s, L"c")
StrChr(s, c) ==
  IF \E i \in 1..Len(s) : s[i] = c
  THEN CHOOSE i \in 1..Len(s) : s[i] = c /\ \A j \in 1..(i - 1) : s[j] # c
  ELSE 0

\* StrStr(s, p) == s : p occurs at the very start of s (any s for an empty p)
StartsWith(s, p) ==
  /\ Len(p) <= Len(s)
  /\ \A i \in 1..Len(p) : s[i] = p[i]

Upper(c) == IF c = "a" THEN "A" ELSE IF c = "b" THEN "B" ELSE IF c = "d" THEN "D"
            ELSE IF c = "e" THEN "E" ELSE IF c = "f" THEN "F" ELSE IF c = "g" THEN "G"
            ELSE IF c = "x" THEN "X" ELSE c

StrUpper(s) == [i \in 1..Len(s) |-> Upper(s[i])]

\* StringNoCaseCompare(&a, &b) == 0
NoCaseEqual(a, b) == StrUpper(a) = StrUpper(b)

RECURSIVE DropLeading(_)
DropLeading(s) ==
  IF Len(s) > 0 /\ s[1] = BS THEN DropLeading(Tail(s)) ELSE s

RECURSIVE DropTrailing(_)
DropTrailing(s) ==
  IF Len(s) > 0 /\ s[Len(s)] = BS THEN DropTrailing(SubSeq(s, 1, Len(s) - 1)) ELSE s

---------------------------------------------------------------------------
(* IsBetweenFileSystem *)

\* the text the comparison reads through pointer p once *Test = CHAR_NULL was
\* written: cut at its own ':' when its ':' was the one found, whole otherwise
CutAt(p, own) == IF own > 0 THEN SubSeq(p, 1, own - 1) ELSE p

IsBetweenFileSystem(FullName, cwd, Dest) ==
  LET own   == StrChr(FullName, COLON)
      own1  == StrChr(Dest, COLON)
      inCwd == IF cwd # NULL THEN StrChr(cwd, COLON) ELSE 0
      Test  == IF own > 0 THEN own ELSE inCwd
      Test1 == IF own1 > 0 THEN own1 ELSE inCwd
  IN  /\ Test # 0
      /\ Test1 # 0
      /\ ~NoCaseEqual(CutAt(FullName, own), CutAt(Dest, own1))

---------------------------------------------------------------------------
(* IsValidMove *)

\* an Attribute is the set of its bits that Mv.c reads
READ_ONLY == "EFI_FILE_READ_ONLY"

\* DestPathWalker after the two trimming loops (Dest holds a character that
\* is no separator: the loops stay inside the string)
DestPathWalker(Dest) == DropTrailing(DropLeading(Dest))

\* the third rule: equal, or SourcePath found at the start of the trimmed target
IsSubPath(SourcePath, Dest) == StartsWith(DestPathWalker(Dest), SourcePath)

IsValidMove(SourcePath, cwd, Dest, Attribute, DestAttr, FileStatus, PoolOk) ==
  IF SourcePath = NULL \/ Dest = NULL THEN FALSE
  ELSE IF cwd # NULL /\ SourcePath = cwd THEN FALSE
  ELSE IF \/ READ_ONLY \in Attribute
          \/ FileStatus = "EFI_WRITE_PROTECTED"
          \/ READ_ONLY \in DestAttr THEN FALSE
  ELSE IF ~PoolOk THEN FALSE
  ELSE ~IsSubPath(SourcePath, Dest)

---------------------------------------------------------------------------
(* GetDestinationLocation *)

\* PathRemoveLastItem: cut after the last '\' that is not the final character
LastSlash(s) ==
  IF \E i \in 1..(Len(s) - 1) : s[i] = BS
  THEN CHOOSE i \in 1..(Len(s) - 1) : s[i] = BS /\ \A j \in (i + 1)..(Len(s) - 1) : s[j] # BS
  ELSE 0

\* while (PathRemoveLastItem(DestPath)) ;
RECURSIVE RemoveAllItems(_)
RemoveAllItems(s) ==
  IF LastSlash(s) > 0 THEN RemoveAllItems(SubSeq(s, 1, LastSlash(s))) ELSE s

\* the destination begins with '\': rooted at the volume of the current directory
RootedDest(DestParam, cwd) == RemoveAllItems(cwd) \o Tail(DestParam)

\* nothing matched and the destination carries no ':' : current directory, one
\* separator, destination
RenameDest(DestParam, cwd) ==
  LET first == IF Len(DestParam) > 0 THEN DestParam[1] ELSE "NUL"
      last  == cwd[Len(cwd)]
      base  == IF last # BS /\ first # BS THEN Append(cwd, BS)
               ELSE IF last = BS /\ first = BS THEN SubSeq(cwd, 1, Len(cwd) - 1)
               ELSE cwd
  IN  base \o DestParam

\* one node matched: a directory, or a single source, takes the node's name and '\'
OneNodeOk(IsDir, SingleSource) == IsDir \/ SingleSource

\* a variant that never finds the current directory missing
NoCwd_Never(cwd) == FALSE

\* if (Cwd == NULL): the shell has no current directory
NoCwd(cwd) == cwd = NULL

\* DestList is what ShellOpenFileMetaArg found for the destination: a sequence
\* of [FullName, Attribute, IsDir].  The result is the returned status, the
\* *DestPathPointer and the *DestAttr (attr is what the caller passed in).
GetDestinationLocation(DestParam, cwd, SingleSource, attr, DestList) ==
  IF Len(DestParam) > 0 /\ DestParam[1] = BS THEN
    IF NoCwd(cwd)
    THEN [status |-> "SHELL_INVALID_PARAMETER", path |-> NULL, attr |-> attr]
    ELSE [status |-> "SHELL_SUCCESS", path |-> RootedDest(DestParam, cwd), attr |-> attr]
  ELSE IF Len(DestList) = 0 THEN
    IF StrChr(DestParam, COLON) = 0 THEN
      IF NoCwd(cwd)
      THEN [status |-> "SHELL_INVALID_PARAMETER", path |-> NULL, attr |-> attr]
      ELSE [status |-> "SHELL_SUCCESS", path |-> RenameDest(DestParam, cwd), attr |-> attr]
    ELSE [status |-> "SHELL_SUCCESS", path |-> DestParam, attr |-> attr]
  ELSE IF Len(DestList) > 1 THEN
    [status |-> "SHELL_INVALID_PARAMETER", path |-> NULL, attr |-> DestList[1].Attribute]
  ELSE IF OneNodeOk(DestList[1].IsDir, SingleSource) THEN
    [status |-> "SHELL_SUCCESS", path |-> Append(DestList[1].FullName, BS),
     attr |-> DestList[1].Attribute]
  ELSE
    [status |-> "SHELL_INVALID_PARAMETER", path |-> NULL, attr |-> DestList[1].Attribute]

\* PathCleanUpDirectories: the destinations of this model hold no '/', "\." or
\* "\.." to collapse, so the path comes back as it is
PathCleanUpDirectories(Path) == Path

---------------------------------------------------------------------------
(* CreateFullDestPath, MoveWithinFileSystems, MoveBetweenFileSystems *)

CreateFullDestPath(Dest, FileName) ==
  LET first == IF Len(FileName) > 0 THEN FileName[1] ELSE "NUL"
      last  == IF Len(Dest) > 0 THEN Dest[Len(Dest)] ELSE "NUL"
  IN  (IF last # BS /\ first # BS THEN Append(Dest, BS) ELSE Dest) \o FileName

\* FullDestPath?FullDestPath:DestPath
Target(Full, Dest) == IF Full # NULL THEN Full ELSE Dest

\* "Chop off map info from DestPath": done in the caller's buffer
ChopMap(Dest) ==
  IF StrChr(Dest, COLON) > 0 THEN SubSeq(Dest, StrChr(Dest, COLON) + 1, Len(Dest)) ELSE Dest

\* NewFileInfo->FileName, built from the chopped DestPath and Node->FileName
NewFileName(Chopped, FileName) ==
  LET base == IF Len(Chopped) = 0 \/ Chopped[1] # BS THEN <<BS>> \o Chopped ELSE Chopped
      nodeFirst == IF Len(FileName) > 0 THEN FileName[1] ELSE "NUL"
  IN  IF base[Len(base)] = BS
      THEN (IF nodeFirst = BS THEN SubSeq(base, 1, Len(base) - 1) ELSE base) \o FileName
      ELSE base

IsError(Stat) == Stat # "EFI_SUCCESS"

\* the calls MoveWithinFileSystems makes; PoolOk: NewFileInfo was allocated
MoveWithinCalls(Dest, FileName, PoolOk, Stat) ==
  IF PoolOk
  THEN <<[op |-> "ShellSetFileInfo", arg |-> NewFileName(ChopMap(Dest), FileName), res |-> Stat]>>
  ELSE <<>>

MoveWithinStatus(PoolOk, Stat) == IF PoolOk THEN Stat ELSE "EFI_OUT_OF_RESOURCES"

\* a variant that deletes the source whatever the copy returned
DeleteAfterCopy_Always(Stat) == TRUE

\* the source is deleted, and its handle dropped, when the copy was no error
DeleteAfterCopy(Stat) == ~IsError(Stat)

\* the calls MoveBetweenFileSystems makes; Stat is what CopySingleFile returns
MoveBetweenCalls(FullName, target, Stat) ==
  <<[op |-> "CopySingleFile", arg |-> target, res |-> Stat]>>
  \o (IF DeleteAfterCopy(Stat)
      THEN <<[op |-> "CascadeDelete", arg |-> FullName, res |-> "EFI_SUCCESS"]>>
      ELSE <<>>)

\* Node->Handle after MoveBetweenFileSystems
HandleAfterCopy(Handle, Stat) == IF DeleteAfterCopy(Stat) THEN NULL ELSE Handle

\* the trailing separators cut from DestPath before a move between file systems
RECURSIVE TrimForCopy(_, _)
TrimForCopy(Full, Dest) ==
  IF Full = NULL /\ Dest # NULL /\ Len(Dest) > 0 /\ Dest[Len(Dest)] = BS
  THEN TrimForCopy(Full, SubSeq(Dest, 1, Len(Dest) - 1))
  ELSE Dest

---------------------------------------------------------------------------
(* The command line, the file store and the user *)

CwdPath == <<"f", ":", BS, "d">>

\* the raw destinations: relative, on another volume, rooted
DestParameters == { <<"x">>, <<"g", ":", BS, "x">>, <<BS, "x">> }

HANDLE == <<"HANDLE">>

MkNode(FileName, FullName, Attribute, Stat, Info) ==
  [FileName |-> FileName, FullName |-> FullName, Attribute |-> Attribute,
   Status |-> Stat, Handle |-> HANDLE, Info |-> Info]

NoNode == MkNode(NULL, NULL, {}, "EFI_SUCCESS", FALSE)

\* the nodes ShellOpenFileMetaArg puts in a FileList
Nodes ==
  { MkNode(<<"a">>, CwdPath \o <<BS, "a">>, {}, "EFI_SUCCESS", TRUE),
    MkNode(<<".">>, CwdPath \o <<BS, ".">>, {}, "EFI_SUCCESS", TRUE),
    MkNode(<<".", ".">>, CwdPath \o <<BS, ".", ".">>, {}, "EFI_SUCCESS", TRUE),
    MkNode(<<"a">>, <<"g", ":", BS, "a">>, {}, "EFI_SUCCESS", TRUE),
    MkNode(<<"a">>, CwdPath \o <<BS, "a">>, {READ_ONLY}, "EFI_SUCCESS", TRUE),
    MkNode(<<"a">>, CwdPath \o <<BS, "a">>, {}, "EFI_SUCCESS", FALSE) }

\* what a copy or a set-info may return
MoveStatuses ==
  { "EFI_SUCCESS", "EFI_SECURITY_VIOLATION", "EFI_ACCESS_DENIED", "EFI_NOT_FOUND" }

\* what the prompt may return; "Max" stands for a value outside Yes/No/All/Cancel
Answers == {"Yes", "No", "All", "Cancel", "Max"}

\* the full name the file store gives a destination, when it can name it at all
DestFullName(DestParam, cwd) ==
  IF StrChr(DestParam, COLON) > 0 THEN DropTrailing(DestParam)
  ELSE IF cwd = NULL THEN NULL
  ELSE IF Len(DestParam) > 0 /\ DestParam[1] = BS THEN RootedDest(DestParam, cwd)
  ELSE RenameDest(DestParam, cwd)

\* what the file store may hold under a destination: nothing, a directory, a
\* file, a read-only file, or several nodes; the current directory is a
\* directory
DestLists(DestParam, cwd) ==
  LET name == DestFullName(DestParam, cwd)
      dir  == [FullName |-> name, Attribute |-> {}, IsDir |-> TRUE]
      file == [FullName |-> name, Attribute |-> {}, IsDir |-> FALSE]
      ro   == [FullName |-> name, Attribute |-> {READ_ONLY}, IsDir |-> FALSE]
  IN  IF name = NULL THEN {<<>>}
      ELSE IF DestParam = cwd THEN {<<dir>>}
      ELSE {<<>>, <<dir>>, <<file>>, <<ro>>, <<file, dir>>}

---------------------------------------------------------------------------
(* ValidateAndMoveFiles: the per-node decisions *)

\* a variant that skips "." only
SkipName_DotOnly(FileName) == FileName = <<".">>

\* "skip the directory traversing stuff..."
SkipName(FileName) == FileName = <<".">> \/ FileName = <<".", ".">>

\* a node with a NULL FileName, FullName or Info
Malformed(n) == n.FileName = NULL \/ n.FullName = NULL \/ ~n.Info

\* a variant whose loop never sees the break flag
BatchBreak_Never(flag) == FALSE

\* the loop's poll of the execution break flag
BatchBreak(flag) == flag

\* a variant whose Cancel case leaves the entry and goes on with the next node
ResponseSwitch_CancelContinues(value) ==
  CASE value = "No"     -> [next |-> "continue", free |-> TRUE,  null |-> TRUE,  pass |-> FALSE]
    [] value = "Cancel" -> [next |-> "continue", free |-> FALSE, null |-> FALSE, pass |-> TRUE]
    [] value = "All"    -> [next |-> "delete",   free |-> FALSE, null |-> FALSE, pass |-> TRUE]
    [] value = "Yes"    -> [next |-> "delete",   free |-> TRUE,  null |-> TRUE,  pass |-> FALSE]
    [] OTHER            -> [next |-> "return",   free |-> TRUE,  null |-> FALSE, pass |-> FALSE]

\* a variant whose All case drops the response as the Yes case does
ResponseSwitch_AllAsYes(value) ==
  CASE value = "No"     -> [next |-> "continue", free |-> TRUE,  null |-> TRUE,  pass |-> FALSE]
    [] value = "Cancel" -> [next |-> "return",   free |-> FALSE, null |-> FALSE, pass |-> TRUE]
    [] value = "All"    -> [next |-> "delete",   free |-> TRUE,  null |-> TRUE,  pass |-> FALSE]
    [] value = "Yes"    -> [next |-> "delete",   free |-> TRUE,  null |-> TRUE,  pass |-> FALSE]
    [] OTHER            -> [next |-> "return",   free |-> TRUE,  null |-> FALSE, pass |-> FALSE]

\* a variant whose No case falls through to the delete
ResponseSwitch_NoFallsThrough(value) ==
  CASE value = "No"     -> [next |-> "delete",   free |-> TRUE,  null |-> TRUE,  pass |-> FALSE]
    [] value = "Cancel" -> [next |-> "return",   free |-> FALSE, null |-> FALSE, pass |-> TRUE]
    [] value = "All"    -> [next |-> "delete",   free |-> FALSE, null |-> FALSE, pass |-> TRUE]
    [] value = "Yes"    -> [next |-> "delete",   free |-> TRUE,  null |-> TRUE,  pass |-> FALSE]
    [] OTHER            -> [next |-> "return",   free |-> TRUE,  null |-> FALSE, pass |-> FALSE]

\* a variant whose Yes case frees the response and goes on holding the pointer
ResponseSwitch_YesNotCleared(value) ==
  CASE value = "No"     -> [next |-> "continue", free |-> TRUE,  null |-> TRUE,  pass |-> FALSE]
    [] value = "Cancel" -> [next |-> "return",   free |-> FALSE, null |-> FALSE, pass |-> TRUE]
    [] value = "All"    -> [next |-> "delete",   free |-> FALSE, null |-> FALSE, pass |-> TRUE]
    [] value = "Yes"    -> [next |-> "delete",   free |-> TRUE,  null |-> FALSE, pass |-> FALSE]
    [] OTHER            -> [next |-> "return",   free |-> TRUE,  null |-> FALSE, pass |-> FALSE]

\* the switch on the prompt response: next is "continue" (next node),
\* "return" (leave with SHELL_ABORTED) or "delete" (overwrite); free: the
\* response is freed; null: Response = NULL; pass: *Resp = Response
ResponseSwitch(value) ==
  CASE value = "No"     -> [next |-> "continue", free |-> TRUE,  null |-> TRUE,  pass |-> FALSE]
    [] value = "Cancel" -> [next |-> "return",   free |-> FALSE, null |-> FALSE, pass |-> TRUE]
    [] value = "All"    -> [next |-> "delete",   free |-> FALSE, null |-> FALSE, pass |-> TRUE]
    [] value = "Yes"    -> [next |-> "delete",   free |-> TRUE,  null |-> TRUE,  pass |-> FALSE]
    [] OTHER            -> [next |-> "return",   free |-> TRUE,  null |-> FALSE, pass |-> FALSE]

\* a prompt is issued when no response is held
NeedsPrompt(response) == response = 0

\* what a failed validation does to ShellStatus
InvalidStatus(old) == "SHELL_INVALID_PARAMETER"

\* a variant that keeps the first failure: a later failure leaves ShellStatus
RecordOutcome_KeepFirst(old, Stat) ==
  IF IsError(Stat) /\ old = "SHELL_SUCCESS" THEN
    CASE Stat = "EFI_SECURITY_VIOLATION" -> "SHELL_SECURITY_VIOLATION"
      [] Stat = "EFI_WRITE_PROTECTED"    -> "SHELL_WRITE_PROTECTED"
      [] Stat = "EFI_OUT_OF_RESOURCES"   -> "SHELL_OUT_OF_RESOURCES"
      [] Stat = "EFI_DEVICE_ERROR"       -> "SHELL_DEVICE_ERROR"
      [] Stat = "EFI_ACCESS_DENIED"      -> "SHELL_ACCESS_DENIED"
      [] OTHER                             -> "SHELL_INVALID_PARAMETER"
  ELSE old

\* "Check our result": ShellStatus after a move that ended with Stat
RecordOutcome(old, Stat) ==
  IF IsError(Stat) THEN
    CASE Stat = "EFI_SECURITY_VIOLATION" -> "SHELL_SECURITY_VIOLATION"
      [] Stat = "EFI_WRITE_PROTECTED"    -> "SHELL_WRITE_PROTECTED"
      [] Stat = "EFI_OUT_OF_RESOURCES"   -> "SHELL_OUT_OF_RESOURCES"
      [] Stat = "EFI_DEVICE_ERROR"       -> "SHELL_DEVICE_ERROR"
      [] Stat = "EFI_ACCESS_DENIED"      -> "SHELL_ACCESS_DENIED"
      [] OTHER                             -> "SHELL_INVALID_PARAMETER"
  ELSE old

\* a variant that leaves the loop at the first failure
AfterFailure_Break == "break"

\* where the loop goes after a node that failed validation or failed to move
AfterFailure == "continue"

Call(op, arg, res) == [op |-> op, arg |-> arg, res |-> res]

\* FreePool of a prompt response
FreeResponse(h, p) == [i \in DOMAIN h \ {p} |-> h[i]]

\* ShellPromptForResponseHii allocates the response: the pool hands out the
\* first free block
AllocResponse(h, value) ==
  LET p == CHOOSE i \in 1..(Cardinality(DOMAIN h) + 1) :
             i \notin DOMAIN h /\ \A j \in 1..(i - 1) : j \in DOMAIN h
  IN  [heap |-> [i \in DOMAIN h \cup {p} |-> IF i = p THEN value ELSE h[i]], ptr |-> p]

\* the state a pass of the loop body starts from, as a record
Before(n) ==
  [next |-> "continue", ShellStatus |-> ShellStatus, Status |-> "unset",
   Response |-> Response, Resp |-> Resp, heap |-> heap, DestPath |-> DestPath,
   FullDestPath |-> FullDestPath, calls |-> <<>>, Handle |-> n.Handle]

\* the pass of a node that fails IsValidMove (full: the new FullDestPath)
InvalidPass(n, full) ==
  [Before(n) EXCEPT !.next = AfterFailure, !.ShellStatus = InvalidStatus(ShellStatus),
                    !.FullDestPath = full,
                    !.calls = <<Call("IsValidMove", Target(full, DestPath), FALSE)>>]

\* the move of a valid node, after the conflict check left s (s.calls holds
\* the calls so far).  status: what the copy or the set-info returns; poolM:
\* MoveWithinFileSystems gets its NewFileInfo
MovePass(n, s, status, poolM) ==
  LET full  == s.FullDestPath
      cross == IsBetweenFileSystem(n.FullName, Cwd, DestPath)
      dest2 == IF cross THEN TrimForCopy(full, DestPath) ELSE ChopMap(DestPath)
      cMove == IF cross
               THEN MoveBetweenCalls(n.FullName, Target(full, dest2), status)
               ELSE MoveWithinCalls(DestPath, n.FileName, poolM, status)
      st    == IF cross THEN status ELSE MoveWithinStatus(poolM, status)
  IN  [s EXCEPT !.next = IF IsError(st) THEN AfterFailure ELSE "continue",
                !.ShellStatus = RecordOutcome(ShellStatus, st),
                !.Status = st,
                !.DestPath = dest2,
                !.calls = s.calls \o cMove,
                !.Handle = IF cross THEN HandleAfterCopy(n.Handle, status) ELSE n.Handle]

\* the conflict check of a valid node whose target exists; answer: what the
\* prompt returns when it is issued
ConflictPass(n, full, answer) ==
  LET target   == Target(full, DestPath)
      prompted == NeedsPrompt(Response)
      got      == IF prompted THEN AllocResponse(heap, answer) ELSE [heap |-> heap, ptr |-> Response]
      sw       == ResponseSwitch(got.heap[got.ptr])
  IN  [Before(n) EXCEPT
         !.next = sw.next,
         !.heap = IF sw.free THEN FreeResponse(got.heap, got.ptr) ELSE got.heap,
         !.Response = IF sw.null THEN 0 ELSE got.ptr,
         !.Resp = IF sw.pass THEN got.ptr ELSE Resp,
         !.FullDestPath = full,
         !.calls = <<Call("IsValidMove", target, TRUE), Call("ShellFileExists", target, TRUE)>>
                   \o (IF prompted THEN <<Call("Prompt", target, answer)>> ELSE <<>>)
                   \o (IF sw.next = "delete"
                       THEN <<Call("ShellDeleteFileByName", target, "EFI_SUCCESS")>>
                       ELSE <<>>)]

\* the conflict check of a valid node whose target does not exist
NoConflictPass(n, full) ==
  [Before(n) EXCEPT !.next = "move", !.FullDestPath = full,
                    !.calls = <<Call("IsValidMove", Target(full, DestPath), TRUE),
                                Call("ShellFileExists", Target(full, DestPath), FALSE)>>]

\* what ShellIsDirectory(DestPath) may answer in the pass of a node.  For the
\* first node the file store is as GetDestinationLocation found it: the one
\* node matched is a directory or is none, and a destination that matched
\* nothing is no directory; a destination that begins with '\' was not looked
\* up.  Later nodes find what earlier moves left, under a DestPath they may
\* have changed.
IsDirAnswers ==
  IF NodeIdx > 1 THEN BOOLEAN
  ELSE IF Len(DestMatches) = 1 THEN {DestMatches[1].IsDir}
  ELSE IF Len(DestMatches) = 0 /\ DestParameter[1] # BS THEN {FALSE}
  ELSE BOOLEAN

\* The outcomes of one pass of the loop body for node n, from the skip check
\* to "Check our result", over what the collaborators may answer: whether
\* DestPath is a directory, whether the target exists, the prompt's answer, the
\* status of the copy or of the set-info, and the allocations of IsValidMove
\* and MoveWithinFileSystems.
NodePasses(n) ==
  IF SkipName(n.FileName) THEN {Before(n)}
  ELSE UNION {
    LET full == IF isDir THEN CreateFullDestPath(DestPath, n.FileName) ELSE NULL
        ok(poolV) == IsValidMove(n.FullName, Cwd, Target(full, DestPath), n.Attribute,
                                 Attr, n.Status, poolV)
        afterCheck == {NoConflictPass(n, full)}
                      \cup {ConflictPass(n, full, answer) : answer \in Answers}
    IN  (IF \E poolV \in BOOLEAN : ~ok(poolV) THEN {InvalidPass(n, full)} ELSE {})
        \cup (IF \E poolV \in BOOLEAN : ok(poolV)
              THEN {s \in afterCheck : s.next \in {"continue", "return"}}
                   \cup {MovePass(n, s, status, poolM) :
                           s \in {t \in afterCheck : t.next \in {"move", "delete"}},
                           status \in MoveStatuses, poolM \in BOOLEAN}
              ELSE {})
    : isDir \in IsDirAnswers }

---------------------------------------------------------------------------
(* ShellCommandRunMv and ValidateAndMoveFiles *)

NoHeap == [i \in {} |-> "None"]
NoRet == [status |-> "none", held |-> {}]
FnIdle == [op |-> "idle"]

\* the locals of ValidateAndMoveFiles outside a call
BatchIdle ==
  /\ ListLen' = 0
  /\ NodeIdx' = 0
  /\ Node' = NoNode
  /\ bpc' = "idle"
  /\ DestMatches' = <<>>
  /\ DestPath' = NULL
  /\ FullDestPath' = NULL
  /\ Attr' = {}
  /\ ShellStatus' = "unset"
  /\ Status' = "unset"
  /\ OldStatus' = "unset"
  /\ Response' = 0
  /\ Hii' = {}
  /\ calls' = <<>>

Init ==
  /\ fn = FnIdle
  /\ BreakFlag = FALSE
  /\ cpc = "start"
  /\ Cwd \in {NULL, CwdPath}
  /\ ParamCount \in 1..(MaxSources + 2)
  /\ DestParameter \in (IF ParamCount > 2 THEN DestParameters ELSE {NULL})
  /\ LoopCounter = 0
  /\ CmdStatus = "SHELL_SUCCESS"
  /\ Resp = 0
  /\ heap = NoHeap
  /\ ListLen = 0
  /\ NodeIdx = 0
  /\ Node = NoNode
  /\ bpc = "idle"
  /\ DestMatches = <<>>
  /\ DestPath = NULL
  /\ FullDestPath = NULL
  /\ Attr = {}
  /\ ShellStatus = "unset"
  /\ Status = "unset"
  /\ OldStatus = "unset"
  /\ Response = 0
  /\ Hii = {}
  /\ calls = <<>>
  /\ ret = NoRet
  /\ Returned = "none"

\* the user presses Ctrl-C: the flag stays set until the command has returned.
\* The flag is read at three polls only, so it is raised right before one.
SetBreak ==
  /\ cpc \in {"loop", "finish"} \/ bpc = "top"
  /\ ~BreakFlag
  /\ BreakFlag' = TRUE
  /\ UNCHANGED <<fn, cpc, Cwd, ParamCount, DestParameter, LoopCounter, CmdStatus, Resp,
                 heap, ListLen, NodeIdx, Node, bpc, DestMatches, DestPath,
                 FullDestPath, Attr, ShellStatus, Status, OldStatus, Response, Hii,
          calls, ret, Returned>>

\* the command's poll at the top of its loop over the source arguments
CmdBreak(flag) == flag

\* the command's last poll, which decides what it returns
FinalStatus(flag, status) == IF flag THEN "SHELL_ABORTED" ELSE status

\* the switch on the parameter count: too few, one source, several
Dispatch ==
  /\ cpc = "start"
  /\ IF ParamCount <= 1 THEN
       /\ CmdStatus' = "SHELL_INVALID_PARAMETER"
       /\ cpc' = "finish"
       /\ UNCHANGED <<ParamCount, LoopCounter, ListLen, bpc>>
     ELSE IF ParamCount = 2 THEN
       IF Cwd = NULL THEN
         /\ CmdStatus' = "SHELL_INVALID_PARAMETER"
         /\ cpc' = "finish"
         /\ UNCHANGED <<ParamCount, LoopCounter, ListLen, bpc>>
       ELSE
         \E n \in 0..MaxList :
           /\ ListLen' = n
           /\ IF n = 0
              THEN CmdStatus' = "SHELL_NOT_FOUND" /\ cpc' = "finish" /\ bpc' = bpc
              ELSE CmdStatus' = CmdStatus /\ cpc' = "single" /\ bpc' = "begin"
           /\ UNCHANGED <<ParamCount, LoopCounter>>
     ELSE
       /\ ParamCount' = ParamCount - 1
       /\ LoopCounter' = 1
       /\ cpc' = "loop"
       /\ UNCHANGED <<CmdStatus, ListLen, bpc>>
  /\ UNCHANGED <<fn, BreakFlag, Cwd, DestParameter, Resp, heap, NodeIdx,
                 Node, DestMatches, DestPath, FullDestPath, Attr, ShellStatus, Status, OldStatus, Response, Hii,
                 calls, ret, Returned>>

\* the top of the loop over the source arguments: poll, open the next source
OpenSource ==
  /\ cpc = "loop"
  /\ IF LoopCounter >= ParamCount \/ CmdBreak(BreakFlag) THEN
       /\ cpc' = "finish"
       /\ UNCHANGED <<LoopCounter, CmdStatus, ListLen, bpc>>
     ELSE
       \E n \in 0..MaxList :
         /\ ListLen' = n
         /\ IF n = 0
            THEN /\ CmdStatus' = "SHELL_NOT_FOUND"
                 /\ LoopCounter' = LoopCounter + 1
                 /\ UNCHANGED <<cpc, bpc>>
            ELSE /\ cpc' = "multi"
                 /\ bpc' = "begin"
                 /\ UNCHANGED <<LoopCounter, CmdStatus>>
  /\ UNCHANGED <<fn, BreakFlag, Cwd, ParamCount, DestParameter, Resp, heap,
                 NodeIdx, Node, DestMatches, DestPath, FullDestPath, Attr, ShellStatus, Status, OldStatus,
                 Response, Hii, calls, ret, Returned>>

\* the destination ValidateAndMoveFiles is called with
BatchDest == IF cpc = "single" THEN Cwd ELSE DestParameter

\* FileList->Link.ForwardLink == FileList->Link.BackLink
SingleSource(len) == len <= 1

\* ValidateAndMoveFiles up to the return of GetDestinationLocation
Resolve ==
  /\ cpc \in {"single", "multi"}
  /\ bpc = "begin"
  /\ \E dl \in DestLists(BatchDest, Cwd) :
       LET r == GetDestinationLocation(BatchDest, Cwd, SingleSource(ListLen), {}, dl)
       IN  /\ DestMatches' = dl
           /\ DestPath' = r.path
           /\ Attr' = r.attr
           /\ ShellStatus' = r.status
  /\ Response' = Resp
  /\ bpc' = "resolved"
  /\ UNCHANGED <<fn, BreakFlag, cpc, Cwd, ParamCount, DestParameter, LoopCounter, CmdStatus,
                 Resp, heap, ListLen, NodeIdx, Node, FullDestPath, Status, OldStatus, Hii,
                 calls, ret, Returned>>

\* what is still allocated when ValidateAndMoveFiles returns without freeing
Held(dest, full, hii) ==
  (IF dest # NULL THEN {"DestPath"} ELSE {})
  \cup (IF full # NULL THEN {"FullDestPath"} ELSE {}) \cup hii

\* from the check of GetDestinationLocation's status to the start of the loop
Setup ==
  /\ cpc \in {"single", "multi"}
  /\ bpc = "resolved"
  /\ DestMatches' = DestMatches
  /\ IF ShellStatus # "SHELL_SUCCESS" THEN
       /\ ret' = [status |-> ShellStatus, held |-> {}]
       /\ bpc' = "ret"
       /\ UNCHANGED <<DestPath, Hii, NodeIdx>>
     ELSE
       \E got \in SUBSET {"HiiOutput", "HiiResultOk"} :
         IF got # {"HiiOutput", "HiiResultOk"} THEN
           /\ ret' = [status |-> "SHELL_OUT_OF_RESOURCES", held |-> {}]
           /\ bpc' = "ret"
           /\ DestPath' = NULL
           /\ UNCHANGED <<Hii, NodeIdx>>
         ELSE
           /\ DestPath' = PathCleanUpDirectories(DestPath)
           /\ Hii' = got
           /\ NodeIdx' = 1
           /\ bpc' = "top"
           /\ ret' = ret
  /\ UNCHANGED <<fn, BreakFlag, cpc, Cwd, ParamCount, DestParameter, LoopCounter, CmdStatus,
                 Resp, heap, ListLen, Node, FullDestPath, Attr, ShellStatus, Status, OldStatus,
                 Response, calls, Returned>>

\* one node of the list: malformed (return), or one pass of the loop body
PerEntry ==
  /\ cpc \in {"single", "multi"}
  /\ bpc = "top"
  /\ NodeIdx <= ListLen
  /\ ~BatchBreak(BreakFlag)
  /\ \E n \in Nodes :
       IF Malformed(n) THEN
         /\ Node' = n
         /\ calls' = <<>>
         /\ ret' = [status |-> "SHELL_OUT_OF_RESOURCES",
                    held |-> Held(DestPath, FullDestPath, Hii)]
         /\ bpc' = "ret"
         /\ UNCHANGED <<ShellStatus, Status, OldStatus, Response, Resp, heap, DestPath,
                        FullDestPath, NodeIdx>>
       ELSE
         \E o \in NodePasses(n) :
               /\ Node' = [n EXCEPT !.Handle = o.Handle]
               /\ calls' = o.calls
               /\ ShellStatus' = o.ShellStatus
               /\ Status' = o.Status
               /\ OldStatus' = ShellStatus
               /\ Response' = o.Response
               /\ Resp' = o.Resp
               /\ heap' = o.heap
               /\ DestPath' = o.DestPath
               /\ FullDestPath' = o.FullDestPath
               /\ IF o.next = "return" THEN
                    /\ ret' = [status |-> "SHELL_ABORTED",
                               held |-> Held(o.DestPath, o.FullDestPath, Hii)]
                    /\ bpc' = "ret"
                    /\ NodeIdx' = NodeIdx
                  ELSE IF o.next = "break" THEN
                    /\ ret' = ret
                    /\ bpc' = "exit"
                    /\ NodeIdx' = NodeIdx
                  ELSE
                    /\ ret' = ret
                    /\ bpc' = "body"
                    /\ NodeIdx' = NodeIdx
  /\ DestMatches' = <<>>
  /\ UNCHANGED <<fn, BreakFlag, cpc, Cwd, ParamCount, DestParameter, LoopCounter, CmdStatus,
                 ListLen, Attr, Hii, Returned>>

\* the loop's step to the next node of the list
NextNode ==
  /\ cpc \in {"single", "multi"}
  /\ bpc = "body"
  /\ NodeIdx' = NodeIdx + 1
  /\ Node' = NoNode
  /\ calls' = <<>>
  /\ Status' = "unset"
  /\ OldStatus' = "unset"
  /\ bpc' = "top"
  /\ UNCHANGED <<fn, BreakFlag, cpc, Cwd, ParamCount, DestParameter, LoopCounter, CmdStatus,
                 Resp, heap, ListLen, DestMatches, DestPath, FullDestPath, Attr,
                 ShellStatus, Response, Hii, ret, Returned>>

\* the loop is left (end of list, or the break flag): free and return ShellStatus
LoopExit ==
  /\ cpc \in {"single", "multi"}
  /\ \/ bpc = "top" /\ (NodeIdx > ListLen \/ BatchBreak(BreakFlag))
     \/ bpc = "exit"
  /\ ret' = [status |-> ShellStatus, held |-> {}]
  /\ bpc' = "ret"
  /\ DestPath' = NULL
  /\ FullDestPath' = NULL
  /\ Hii' = {}
  /\ UNCHANGED <<fn, BreakFlag, cpc, Cwd, ParamCount, DestParameter, LoopCounter, CmdStatus,
                 Resp, heap, ListLen, NodeIdx, Node, DestMatches, Attr,
                 ShellStatus, Status, OldStatus, Response, calls, Returned>>

\* the command's status after a batch: the loop keeps a status that is no success
KeepStatus(old, new) == IF old = "SHELL_SUCCESS" THEN new ELSE old

\* back in ShellCommandRunMv: take the batch's status, close the list
AfterBatch ==
  /\ bpc = "ret"
  /\ \/ /\ cpc = "single"
        /\ CmdStatus' = ret.status
        /\ cpc' = "finish"
        /\ UNCHANGED LoopCounter
     \/ /\ cpc = "multi"
        /\ \E closeError \in BOOLEAN :
             CmdStatus' = IF closeError /\ KeepStatus(CmdStatus, ret.status) = "SHELL_SUCCESS"
                          THEN "SHELL_ACCESS_DENIED"
                          ELSE KeepStatus(CmdStatus, ret.status)
        /\ LoopCounter' = LoopCounter + 1
        /\ cpc' = "loop"
  /\ BatchIdle
  /\ ret' = NoRet
  /\ UNCHANGED <<fn, BreakFlag, Cwd, ParamCount, DestParameter, Resp, heap, Returned>>

\* SHELL_FREE_NON_NULL(Response), the last poll, the return
Finish ==
  /\ cpc = "finish"
  /\ heap' = IF Resp # 0 THEN FreeResponse(heap, Resp) ELSE heap
  /\ Resp' = 0
  /\ Returned' = FinalStatus(BreakFlag, CmdStatus)
  /\ cpc' = "done"
  /\ UNCHANGED <<fn, BreakFlag, Cwd, ParamCount, DestParameter, LoopCounter, CmdStatus,
                 ListLen, NodeIdx, Node, bpc, DestMatches, DestPath,
                 FullDestPath, Attr, ShellStatus, Status, OldStatus, Response, Hii, calls, ret>>

Next ==
  \/ SetBreak
  \/ Dispatch
  \/ OpenSource
  \/ Resolve
  \/ Setup
  \/ PerEntry
  \/ NextNode
  \/ LoopExit
  \/ AfterBatch
  \/ Finish

Spec == Init /\ [][Next]_vars

---------------------------------------------------------------------------
(* IsValidMove on its own: the validator applied to a source, a current
   directory and a target built from the source *)

MaxSuffix == 1

\* the sources: the paths of up to MaxLen characters that name something.  A
\* path of separators only is left out: its targets trim to the empty string,
\* where the second trimming loop of IsValidMove indexes DestPathWalker at
\* StrLen - 1 with StrLen = 0
SourcePaths == {P \in Strs(MaxLen) : \E i \in DOMAIN P : P[i] # BS}

\* what is appended to a source, after a separator, to name something below it
Suffixes == Strs(MaxSuffix) \ {<<>>}

\* the targets tried for source P: P itself, P + '\' + S, and P + S for an S
\* that begins with no separator
TargetsOf(P) ==
  {P} \cup {P \o <<BS>> \o S : S \in Suffixes}
      \cup {P \o S : S \in {X \in Suffixes : X[1] # BS}}

\* the current directories tried for source P
CwdsOf(P) == {NULL, P, CwdPath}

\* ValidateAndMoveFiles and ShellCommandRunMv are not running
Quiet ==
  /\ BreakFlag = FALSE
  /\ cpc = "start"
  /\ Cwd = NULL
  /\ ParamCount = 1
  /\ DestParameter = NULL
  /\ LoopCounter = 0
  /\ CmdStatus = "SHELL_SUCCESS"
  /\ Resp = 0
  /\ heap = NoHeap
  /\ ListLen = 0
  /\ NodeIdx = 0
  /\ Node = NoNode
  /\ bpc = "idle"
  /\ DestMatches = <<>>
  /\ DestPath = NULL
  /\ FullDestPath = NULL
  /\ Attr = {}
  /\ ShellStatus = "unset"
  /\ Status = "unset"
  /\ OldStatus = "unset"
  /\ Response = 0
  /\ Hii = {}
  /\ calls = <<>>
  /\ ret = NoRet
  /\ Returned = "none"

InitFn ==
  /\ Quiet
  /\ \E P \in SourcePaths : \E c \in CwdsOf(P) : \E T \in TargetsOf(P) :
     \E a \in SUBSET {READ_ONLY} : \E d \in SUBSET {READ_ONLY} :
     \E f \in {"EFI_SUCCESS", "EFI_WRITE_PROTECTED"} : \E pool \in BOOLEAN :
       fn = [op |-> "IsValidMove", SourcePath |-> P, Cwd |-> c, DestPath |-> T,
             Attribute |-> a, DestAttr |-> d, FileStatus |-> f, PoolOk |-> pool,
             done |-> FALSE, result |-> FALSE]

\* the call of IsValidMove on the drawn arguments
CallIsValidMove ==
  /\ fn.op = "IsValidMove"
  /\ ~fn.done
  /\ fn' = [fn EXCEPT !.done = TRUE,
                      !.result = IsValidMove(fn.SourcePath, fn.Cwd, fn.DestPath, fn.Attribute,
                                             fn.DestAttr, fn.FileStatus, fn.PoolOk)]
  /\ UNCHANGED <<BreakFlag, cpc, Cwd, ParamCount, DestParameter, LoopCounter, CmdStatus, Resp,
                 heap, ListLen, NodeIdx, Node, bpc, DestMatches, DestPath, FullDestPath, Attr,
                 ShellStatus, Status, OldStatus, Response, Hii, calls, ret, Returned>>

NextFn == CallIsValidMove

SpecFn == InitFn /\ [][NextFn]_vars

---------------------------------------------------------------------------
(* Properties *)

HasCall(cs, op) == \E i \in DOMAIN cs : cs[i].op = op

\* the names of the calls of cs, in order
Ops(cs) == [i \in DOMAIN cs |-> cs[i].op]

\* cs holds a prompt that returned answer
Answered(cs, answer) == \E i \in DOMAIN cs : cs[i].op = "Prompt" /\ cs[i].res = answer

\* cs holds a check of the target that found it
Collides(cs) == \E i \in DOMAIN cs : cs[i].op = "ShellFileExists" /\ cs[i].res

\* cs starts with a validation that failed
ValidationFailed(cs) == Len(cs) >= 1 /\ cs[1].op = "IsValidMove" /\ ~cs[1].res

\* the pass of Node ended in a move that returned an error
MoveFailed == Status \notin {"unset", "EFI_SUCCESS"}

\* an All response is held for the command
AllHeld == Resp \in DOMAIN heap /\ heap[Resp] = "All"

InBatch == bpc \in {"top", "body", "exit"}

\* C1: once the prompt has returned Cancel for a colliding entry, the entry's
\* target is not deleted and the entry is not moved (the calls of the pass end
\* with the prompt, the source handle is kept), the batch returns
\* SHELL_ABORTED, and the next step leaves the batch: no later entry is taken.
C1_CancelStopsBatch ==
  /\ [](Answered(calls, "Cancel") =>
          /\ Ops(calls) = <<"IsValidMove", "ShellFileExists", "Prompt">>
          /\ Node.Handle = HANDLE
          /\ Status = "unset"
          /\ bpc = "ret"
          /\ ret.status = "SHELL_ABORTED")
  /\ [][Answered(calls, "Cancel") => (bpc' = "idle" /\ calls' = <<>>)]_vars

\* Cancel was answered for the first entry of a list that holds a later entry
C1_Witness ==
  /\ Answered(calls, "Cancel")
  /\ bpc = "ret"
  /\ NodeIdx < ListLen
  /\ ret.status = "SHELL_ABORTED"

\* C2: once the prompt has returned All, the response is held, and it stays
\* held until the command ends; no later pass of this batch or of a later
\* batch prompts, and every later pass whose target exists deletes the target
\* and then runs the move, as a Yes does.
C2_AllIsSticky ==
  /\ [](Answered(calls, "All") => AllHeld)
  /\ [][AllHeld /\ cpc' # "done" => AllHeld']_vars
  /\ [][AllHeld /\ calls' # calls => ~HasCall(calls', "Prompt")]_vars
  /\ [][AllHeld /\ calls' # calls /\ Collides(calls') =>
          /\ Len(calls') >= 3
          /\ calls'[3].op = "ShellDeleteFileByName"
          /\ Status' # "unset"
          /\ bpc' = "body"
          /\ Len(calls') >= 4 => calls'[4].op \in {"CopySingleFile", "ShellSetFileInfo"}]_vars

\* in the batch of a later source argument, with All held from an earlier
\* batch, an entry whose target exists was overwritten without a prompt
C2_Witness ==
  /\ AllHeld
  /\ cpc = "multi"
  /\ LoopCounter >= 2
  /\ NodeIdx = 1
  /\ Collides(calls)
  /\ ~HasCall(calls, "Prompt")
  /\ HasCall(calls, "ShellDeleteFileByName")
  /\ Status = "EFI_SUCCESS"

\* C3: in a move between file systems the source is deleted only right after
\* a copy that returned success, and then the handle is NULL; a copy that
\* returned an error is the last call of the pass, the handle is kept, and the
\* error is the status of the move.
C3_CopyThenDelete ==
  /\ \A i \in DOMAIN calls :
       /\ calls[i].op = "CascadeDelete" =>
            i > 1 /\ calls[i - 1].op = "CopySingleFile" /\ calls[i - 1].res = "EFI_SUCCESS"
       /\ calls[i].op = "CopySingleFile" =>
            IF calls[i].res = "EFI_SUCCESS"
            THEN /\ i < Len(calls)
                 /\ calls[i + 1].op = "CascadeDelete"
                 /\ calls[i + 1].arg = Node.FullName
                 /\ Node.Handle = NULL
                 /\ Status = "EFI_SUCCESS"
            ELSE /\ i = Len(calls)
                 /\ Node.Handle = HANDLE
                 /\ Status = calls[i].res
  /\ Node.Handle = NULL => HasCall(calls, "CascadeDelete")

\* a copy to another file system failed: no delete, the handle is kept
C3_Witness ==
  /\ HasCall(calls, "CopySingleFile")
  /\ ~HasCall(calls, "CascadeDelete")
  /\ Status = "EFI_ACCESS_DENIED"
  /\ Node.Handle = HANDLE

\* C4: the validator rejects every identity move: IsValidMove(P, cwd, P, ...)
\* is FALSE for every path P, also one that begins or ends with a separator,
\* every current directory and every combination of attributes.
C4_IdentityMoveRejected ==
  (fn.op = "IsValidMove" /\ fn.done /\ fn.DestPath = fn.SourcePath) => ~fn.result

\* C5: the validator rejects every move of P below itself:
\* IsValidMove(P, cwd, P + '\' + S, ...) is FALSE for every path P and every
\* non-empty S, whatever separators P begins or ends with.
C5_MoveBelowItselfRejected ==
  (/\ fn.op = "IsValidMove"
   /\ fn.done
   /\ \E S \in Suffixes : fn.DestPath = fn.SourcePath \o <<BS>> \o S) => ~fn.result

\* the shell status "Check our result" gives an error of the move
FailureCode(Stat) ==
  CASE Stat = "EFI_SECURITY_VIOLATION" -> "SHELL_SECURITY_VIOLATION"
    [] Stat = "EFI_WRITE_PROTECTED"    -> "SHELL_WRITE_PROTECTED"
    [] Stat = "EFI_OUT_OF_RESOURCES"   -> "SHELL_OUT_OF_RESOURCES"
    [] Stat = "EFI_DEVICE_ERROR"       -> "SHELL_DEVICE_ERROR"
    [] Stat = "EFI_ACCESS_DENIED"      -> "SHELL_ACCESS_DENIED"
    [] OTHER                           -> "SHELL_INVALID_PARAMETER"

C7_FailureDoesNotStopBatch ==
  /\ []((ValidationFailed(calls) \/ MoveFailed) =>
          bpc = "body" /\ ShellStatus # "SHELL_SUCCESS")
  /\ []((bpc = "ret" /\ ShellStatus # "SHELL_SUCCESS") => ret.status # "SHELL_SUCCESS")
  /\ [][(InBatch /\ ShellStatus # "SHELL_SUCCESS" /\ bpc' # "idle") =>
          ShellStatus' # "SHELL_SUCCESS"]_vars
  /\ [][(bpc = "top" /\ NodeIdx <= ListLen /\ ~BreakFlag /\ ShellStatus # "SHELL_SUCCESS"
         /\ bpc' # "top") => Node' \in {[n EXCEPT !.Handle = h] : n \in Nodes, h \in {HANDLE, NULL}}]_vars

\* after a first entry that failed, the second entry was moved, and the running
\* result still holds the failure
C7_Witness ==
  /\ bpc = "body"
  /\ NodeIdx = 2
  /\ OldStatus # "SHELL_SUCCESS"
  /\ Status = "EFI_SUCCESS"
  /\ HasCall(calls, "ShellSetFileInfo")
  /\ ShellStatus = OldStatus

\* C8: the pass of an entry named "." or ".." makes no call (no validation, no
\* prompt, no delete, no copy, no rename), leaves the running result, and goes
\* on to the next entry.
C8_DotEntriesSkipped ==
  (Node.FileName \in {<<".">>, <<".", ".">>}) =>
    /\ calls = <<>>
    /\ Status = "unset"
    /\ ShellStatus = OldStatus
    /\ Node.Handle = HANDLE
    /\ bpc = "body"

\* ".." was skipped as the first of two entries
C8_Witness ==
  /\ Node.FileName = <<".", ".">>
  /\ bpc = "body"
  /\ NodeIdx < ListLen
  /\ calls = <<>>

\* the command is moving more than one source entry: the list holds several,
\* or an earlier source argument was found and moved
MoreThanOneSource ==
  ListLen > 1 \/ (cpc = "multi" /\ LoopCounter > 1 /\ ListLen >= 1 /\ CmdStatus = "SHELL_SUCCESS")

\* C9: resolution of the destination fails, and gives no destination path,
\* whenever the raw destination matches two or more nodes, or matches one node
\* that is no directory while the command moves more than one source entry,
\* also with several source arguments and with a raw destination that begins
\* with a separator.
C9_AmbiguousDestinationFails ==
  (/\ bpc = "resolved"
   /\ \/ Len(DestMatches) >= 2
      \/ Len(DestMatches) = 1 /\ ~DestMatches[1].IsDir /\ MoreThanOneSource)
  => (ShellStatus # "SHELL_SUCCESS" /\ DestPath = NULL)

\* C10: with the break flag set no entry is taken (no validation, prompt,
\* delete or move: no call is made and no node is held), no further batch is
\* begun, and what the command returns is SHELL_ABORTED.
C10_BreakStopsCommand ==
  /\ BreakFlag => calls = <<>> /\ Node = NoNode /\ bpc \in {"idle", "top", "ret"}
  /\ (BreakFlag /\ Returned # "none") => Returned = "SHELL_ABORTED"

\* the flag was set after the first entry was moved: the batch has returned
\* with the second entry untouched
C10_Witness ==
  /\ BreakFlag
  /\ bpc = "ret"
  /\ NodeIdx = 2
  /\ NodeIdx <= ListLen
  /\ ret.status = "SHELL_SUCCESS"

\* C11: the destination path resolved for the batch keeps its value over every
\* pass of the loop; the one change a pass may make is to cut its trailing
\* separators before a move between file systems, so a move within a file
\* system leaves it, volume qualifier included, for the next entry.
C11_DestPathKept ==
  [][(bpc = "top" /\ bpc' = "body") =>
       \/ DestPath' = DestPath
       \/ HasCall(calls', "CopySingleFile") /\ DestPath' = DropTrailing(DestPath)]_vars

---------------------------------------------------------------------------
(* IsBetweenFileSystem on its own: the classifier applied to a source, a
   current directory and a destination *)

\* the current directories tried: none, and one volume in either letter case
VolCwds == {NULL, <<"a", ":", BS>>, <<"A", ":", BS>>}

InitVol ==
  /\ Quiet
  /\ \E F \in Strs(MaxLen) \ {<<>>} : \E c \in VolCwds : \E D \in Strs(MaxLen) \ {<<>>} :
       fn = [op |-> "IsBetweenFileSystem", FullName |-> F, Cwd |-> c, DestPath |-> D,
             done |-> FALSE, result |-> FALSE]

\* the call of IsBetweenFileSystem on the drawn arguments
CallIsBetweenFileSystem ==
  /\ fn.op = "IsBetweenFileSystem"
  /\ ~fn.done
  /\ fn' = [fn EXCEPT !.done = TRUE,
                      !.result = IsBetweenFileSystem(fn.FullName, fn.Cwd, fn.DestPath)]
  /\ UNCHANGED <<BreakFlag, cpc, Cwd, ParamCount, DestParameter, LoopCounter, CmdStatus, Resp,
                 heap, ListLen, NodeIdx, Node, bpc, DestMatches, DestPath, FullDestPath, Attr,
                 ShellStatus, Status, OldStatus, Response, Hii, calls, ret, Returned>>

NextVol == CallIsBetweenFileSystem

SpecVol == InitVol /\ [][NextVol]_vars

\* the text before the first ':' of path p, or of the current directory when
\* p holds no ':'; NULL when neither gives one
Qualifier(p, cwd) ==
  IF StrChr(p, COLON) > 0 THEN SubSeq(p, 1, StrChr(p, COLON) - 1)
  ELSE IF cwd # NULL /\ StrChr(cwd, COLON) > 0 THEN SubSeq(cwd, 1, StrChr(cwd, COLON) - 1)
  ELSE NULL

\* C12: IsBetweenFileSystem answers TRUE exactly when the qualifier of the
\* source and the qualifier of the destination, each taken from the path or
\* else from the current directory, both exist and differ without regard to
\* letter case; with a qualifier missing the answer is FALSE.
C12_ClassifiedByQualifier ==
  (fn.op = "IsBetweenFileSystem" /\ fn.done) =>
    (fn.result <=> /\ Qualifier(fn.FullName, fn.Cwd) # NULL
                   /\ Qualifier(fn.DestPath, fn.Cwd) # NULL
                   /\ ~NoCaseEqual(Qualifier(fn.FullName, fn.Cwd),
                                   Qualifier(fn.DestPath, fn.Cwd)))


\* the decision the pass of Node acted on for an existing target: what the
\* prompt returned, or else the response that was held
Decision ==
  IF HasCall(calls, "Prompt")
  THEN (CHOOSE c \in {calls[i] : i \in DOMAIN calls} : c.op = "Prompt").res
  ELSE IF Response \in DOMAIN heap THEN heap[Response] ELSE "none"

MovePrimitives == {"CopySingleFile", "ShellSetFileInfo"}

\* C13: a target is deleted only in a pass that passed validation, found the
\* target and acted on a Yes or an All, and the delete comes before any copy
\* or rename of that pass; such a pass always deletes.  No delete is made for
\* an entry that failed validation, whose target did not exist, or whose
\* decision was No or Cancel.
C13_DeleteBeforeMove ==
  /\ \A i \in DOMAIN calls :
       calls[i].op = "ShellDeleteFileByName" =>
         /\ ~ValidationFailed(calls)
         /\ Collides(calls)
         /\ Decision \in {"Yes", "All"}
         /\ \A j \in 1..(i - 1) : calls[j].op \notin MovePrimitives
         /\ \A j \in DOMAIN calls : calls[j].op = "ShellDeleteFileByName" => j = i
  /\ (Collides(calls) /\ Decision \in {"Yes", "All"}) =>
       HasCall(calls, "ShellDeleteFileByName")

\* a Yes: validate, find the target, prompt, delete, then copy and delete the source
C13_Witness ==
  /\ Answered(calls, "Yes")
  /\ Ops(calls) = <<"IsValidMove", "ShellFileExists", "Prompt", "ShellDeleteFileByName",
                    "CopySingleFile", "CascadeDelete">>


\* the number of prompts of the pass
Prompts(cs) == Cardinality({i \in DOMAIN cs : cs[i].op = "Prompt"})

\* C14: a pass prompts exactly when the target exists and no All is held, and
\* then once; after a No the pass makes no further call, leaves the running
\* result and goes on with the next entry; after a No or a Yes no response is
\* held, so the next existing target is prompted for again.
C14_PromptExactlyOnCollision ==
  /\ HasCall(calls, "Prompt") => Collides(calls) /\ Prompts(calls) = 1
  /\ (Collides(calls) /\ ~HasCall(calls, "Prompt")) => Decision = "All"
  /\ Answered(calls, "No") =>
       /\ Ops(calls) = <<"IsValidMove", "ShellFileExists", "Prompt">>
       /\ ShellStatus = OldStatus
       /\ Node.Handle = HANDLE
       /\ bpc = "body"
  /\ (Answered(calls, "No") \/ Answered(calls, "Yes")) => Response = 0 /\ Resp = 0


\* the pass of Node ran MoveWithinFileSystems
WithinMove == Status # "unset" /\ ~HasCall(calls, "CopySingleFile")

\* the target the pass validated and checked for a collision
ValidatedTarget == calls[1].arg

\* a path without its volume qualifier, with a leading separator
RenameName(path) ==
  LET rest == IF StrChr(path, COLON) > 0
              THEN SubSeq(path, StrChr(path, COLON) + 1, Len(path)) ELSE path
  IN  IF Len(rest) > 0 /\ rest[1] = BS THEN rest ELSE <<BS>> \o rest

\* C15: a move within a file system makes one set-info call (none when its
\* file info cannot be allocated), whose new name is the target of the pass
\* without the volume qualifier and with a leading separator; it makes no
\* copy and no delete of the source and keeps the source handle.
C15_RenameToTarget ==
  WithinMove =>
    /\ ~HasCall(calls, "CascadeDelete")
    /\ Node.Handle = HANDLE
    /\ Cardinality({i \in DOMAIN calls : calls[i].op = "ShellSetFileInfo"})
         = (IF Status = "EFI_OUT_OF_RESOURCES" THEN 0 ELSE 1)
    /\ \A i \in DOMAIN calls :
         calls[i].op = "ShellSetFileInfo" => calls[i].arg = RenameName(ValidatedTarget)


---------------------------------------------------------------------------
(* C16 *)

\* the destination of the batch begins with '\', or carries no ':'
NeedsCwd == DestParameter[1] = BS \/ StrChr(DestParameter, COLON) = 0

\* C16: with no current directory, a destination that begins with a separator,
\* or that matches nothing and carries no volume qualifier, makes the
\* resolution fail: no destination path is produced, the batch returns the
\* failure and no entry is validated, deleted or moved; a destination that
\* matches nothing and carries its own qualifier resolves to itself, character
\* for character
C16_NoCwdResolution ==
  (cpc = "multi" /\ Cwd = NULL) =>
    /\ (NeedsCwd /\ DestMatches = <<>>) =>
         /\ bpc \in {"begin", "resolved", "ret"}
         /\ DestPath = NULL
         /\ calls = <<>>
         /\ bpc = "resolved" => ShellStatus = "SHELL_INVALID_PARAMETER"
         /\ bpc = "ret" => ret = [status |-> "SHELL_INVALID_PARAMETER", held |-> {}]
    /\ (bpc = "resolved" /\ ~NeedsCwd /\ DestMatches = <<>>) =>
         /\ ShellStatus = "SHELL_SUCCESS"
         /\ DestPath = DestParameter

\* a batch that has returned the failure for a destination that begins with a
\* separator, the current directory being unknown
C16_Witness ==
  /\ cpc = "multi" /\ Cwd = NULL /\ bpc = "ret"
  /\ DestParameter[1] = BS
  /\ ret.status = "SHELL_INVALID_PARAMETER"
  /\ DestPath = NULL


---------------------------------------------------------------------------
(* C17 *)

Lower(c) == IF c = "A" THEN "a" ELSE IF c = "B" THEN "b" ELSE IF c = "D" THEN "d"
            ELSE IF c = "E" THEN "e" ELSE IF c = "F" THEN "f" ELSE IF c = "G" THEN "g"
            ELSE IF c = "X" THEN "x" ELSE c

\* the strings that differ from s in letter case only
RECURSIVE CaseVariants(_)
CaseVariants(s) ==
  IF s = NULL THEN {NULL}
  ELSE IF s = <<>> THEN {<<>>}
  ELSE {<<c>> \o t : c \in {Upper(s[1]), Lower(s[1])}, t \in CaseVariants(Tail(s))}

\* C17: the verdict of IsValidMove is the same for every variant of the source
\* path, of the current directory and of the target path that differs in
\* letter case only
C17_VerdictIgnoresCase ==
  (fn.op = "IsValidMove" /\ fn.done) =>
    /\ \A P \in CaseVariants(fn.SourcePath) :
         IsValidMove(P, fn.Cwd, fn.DestPath, fn.Attribute, fn.DestAttr, fn.FileStatus,
                     fn.PoolOk) = fn.result
    /\ \A c \in CaseVariants(fn.Cwd) :
         IsValidMove(fn.SourcePath, c, fn.DestPath, fn.Attribute, fn.DestAttr, fn.FileStatus,
                     fn.PoolOk) = fn.result
    /\ \A T \in CaseVariants(fn.DestPath) :
         IsValidMove(fn.SourcePath, fn.Cwd, T, fn.Attribute, fn.DestAttr, fn.FileStatus,
                     fn.PoolOk) = fn.result


---------------------------------------------------------------------------
(* C18 *)

\* C18: whenever a batch returns (end of the list, the break flag, a Cancel
\* decision, an unexpected response, a malformed entry, a failure to get the
\* output strings), nothing of what it acquired (DestPath, FullDestPath,
\* HiiOutput, HiiResultOk) is still allocated
C18_AllReleased ==
  bpc = "ret" => ret.held = {}


---------------------------------------------------------------------------
(* C19 *)

\* the decision object the command passes to its batches holds Cancel
CancelHeld == Resp \in DOMAIN heap /\ heap[Resp] = "Cancel"

\* cs holds a delete of a target, a copy, a delete of a source or a rename
DeletesOrMoves(cs) ==
  \E i \in DOMAIN cs :
    cs[i].op \in {"ShellDeleteFileByName", "CopySingleFile", "CascadeDelete", "ShellSetFileInfo"}

\* C19: once a batch of a command with several source arguments has obtained
\* Cancel, no later pass, of this or of a later source argument, deletes or
\* moves anything, whether its target exists or not, and the command returns
\* SHELL_ABORTED
C19_CancelStopsCommand ==
  /\ [][(CancelHeld /\ calls' # calls) => ~DeletesOrMoves(calls')]_vars
  /\ [][(CancelHeld /\ cpc' = "done") => Returned' = "SHELL_ABORTED"]_vars


---------------------------------------------------------------------------
(* C20 *)

\* a path without its volume qualifier and without the separators around it
PathInVolume(path) == DropTrailing(DropLeading(ChopMap(path)))

\* C20: in every pass that runs the move, the path the copy writes to, or the
\* name the set-info call gives the source, is the target the pass validated
\* and checked for a collision, the volume qualifier and the separators at
\* either end aside
C20_MovesToValidatedTarget ==
  \A i \in DOMAIN calls :
    calls[i].op \in MovePrimitives =>
      PathInVolume(calls[i].arg) = PathInVolume(ValidatedTarget)


---------------------------------------------------------------------------
(* C21 *)

\* C21: with a writable source and destination, a source that is not the
\* current directory and the copy of the target allocated, IsValidMove accepts
\* a target whose text is the source followed by characters that begin with
\* no separator: a sibling of the source, as foobar is of foo
C21_SiblingAccepted ==
  (/\ fn.op = "IsValidMove"
   /\ fn.done
   /\ fn.Attribute = {} /\ fn.DestAttr = {} /\ fn.FileStatus = "EFI_SUCCESS"
   /\ fn.PoolOk
   /\ fn.Cwd # fn.SourcePath
   /\ \E S \in Suffixes : S[1] # BS /\ fn.DestPath = fn.SourcePath \o S) => fn.result


---------------------------------------------------------------------------
(* C22 *)

\* C22: the status of the command is changed only while it is SHELL_SUCCESS:
\* once a source argument has left a status that is no success, no step for a
\* later source argument (the result of its batch, a source that matches
\* nothing, a failure to close its list) replaces it
C22_StatusSetOnce ==
  [][CmdStatus # "SHELL_SUCCESS" => CmdStatus' = CmdStatus]_vars


---------------------------------------------------------------------------
(* C23 *)

\* p points at a response that is allocated
Live(p) == p \in DOMAIN heap

\* C23: the decision object is never read after it was freed and is freed at
\* most once.  The pointer the command holds is NULL or points at an allocated
\* All or Cancel; the pointer a running batch holds is NULL or points at an
\* allocated response, so the switch reads, and the Yes, No and default cases
\* free, an allocated one; a batch that has returned after a free (Yes, No, an
\* unexpected value) handed nothing back; at most one response is allocated
\* at a time; and when the command has returned, the command has freed what
\* it held and nothing is left allocated.
C23_DecisionFreedOnce ==
  /\ []((Resp # 0) => (Live(Resp) /\ heap[Resp] \in {"All", "Cancel"}))
  /\ []((Response # 0 /\ bpc # "ret") => Live(Response))
  /\ []((Response # 0 /\ bpc = "ret" /\ ~Live(Response)) => Resp = 0)
  /\ [](Cardinality(DOMAIN heap) <= 1)
  /\ [](cpc = "done" => (Resp = 0 /\ heap = NoHeap))
  /\ [][(cpc = "finish" /\ cpc' = "done" /\ Resp # 0) =>
          (heap # NoHeap /\ heap' = NoHeap)]_vars
  /\ [][(heap # NoHeap /\ heap' = NoHeap) =>
          (Resp' = 0 /\ (Response' = 0 \/ bpc' = "ret"))]_vars

\* the command is about to return and holds the Cancel a batch handed back
C23_Witness ==
  /\ cpc = "finish"
  /\ Resp # 0
  /\ Live(Resp)
  /\ heap[Resp] = "Cancel"

=============================================================================
